---- MODULE Spec2Model ----
(***************************************************************************)
(* State-machine model of the useLiveTranslator hook (the session engine   *)
(* of omnitranslate) and of the App handlers that drive it.                *)
(*                                                                         *)
(* Every call of connect() is an "attempt" with its own closure: the       *)
(* microphone stream, the two audio contexts, the watchdog timer and the   *)
(* remote session it creates.  The refs of the hook are shared by all      *)
(* attempts and hold the id of the attempt whose object they point to      *)
(* (Null = null).                                                          *)
(***************************************************************************)
EXTENDS Integers, Sequences, FiniteSets, TLC

\* ---------------------------------------------------------------- bounds
\* number of connect() calls that get as far as requesting the microphone
MaxAttempts == 2
\* number of capture ticks (onaudioprocess events) in a behaviour
MaxTicks == 2
\* largest RMS input of a capture tick, in tenths
MaxRms == 3
\* number of inbound messages in a behaviour
MaxMsgs == 2
\* largest value an output clock (AudioContext.currentTime) reaches
MaxClock == 2
\* largest duration of a decoded audio buffer
MaxDur == 2

\* ------------------------------------------------------ program constants
\* setVolume(Math.min(rms * 5, 1)): the gain, and 1.0 in tenths
VolumeGain == 5
VolumeOne == 10

Null == 0
Attempts == 1..MaxAttempts

\* the texts handed to setErrorMessage
MsgNone == "null"
MsgMissingKey == "API Key is missing. Please enter your key in settings."
MsgMicDenied == "Microphone access denied. Please allow microphone permissions in your browser settings."
MsgUnsupported == "Audio input is not supported in this browser or context (requires HTTPS)."
MsgTimeout == "Connection to the server timed out. Please check your network."
MsgImmediate == "Connection failed immediately. Please check your network or API Key."
MsgService == "Connection to AI service failed."
MsgSetup == "err.message || Failed to initialize connection"

VARIABLES
  connectionState,      \* useState<ConnectionState>
  errorMessage,         \* useState<string | null>
  isMuted,              \* useState(false)
  isMutedRef,           \* useRef(false)
  volume,               \* useState(0), in tenths
  audioContextRef,      \* attempt whose output context the ref holds, or Null
  inputContextRef,      \* attempt whose input context the ref holds, or Null
  streamRef,            \* attempt whose MediaStream the ref holds, or Null
  processorRef,         \* attempt whose ScriptProcessor the ref holds, or Null
  sourceRef,            \* attempt whose MediaStreamSource the ref holds, or Null
  connectionTimeoutRef, \* attempt whose timer id the ref holds, or Null
  isConnectedRef,       \* useRef<boolean>(false)
  mediaSupported,       \* navigator.mediaDevices.getUserMedia exists
  nStarted,             \* number of attempts started so far
  pc,                   \* attempt -> position of its connect() call
  timer,                \* attempt -> state of the timer its setTimeout made
  session,              \* attempt -> state of the remote session it created
  opened,               \* attempts whose onopen has run
  micLive,              \* attempts whose microphone tracks are not stopped
  outCtxOpen,           \* attempts whose output AudioContext is not closed
  inCtxOpen,            \* attempts whose input AudioContext is not closed
  srcWired,             \* attempts whose MediaStreamSource is connected
  procWired,            \* attempts whose ScriptProcessor is connected
  nTicks,               \* number of capture ticks so far
  thenQueue,            \* attempt -> packets waiting in sessionPromise.then
  sent,                 \* attempt -> packets handed to sendRealtimeInput
  nextStartTimeRef,     \* useRef<number>(0)
  currentTime,          \* attempt -> currentTime of its output AudioContext
  nMsgs,                \* number of inbound messages so far
  nInterrupts,          \* number of them that carried the interrupted flag
  inflight,             \* onmessage calls suspended at await decodeAudioData
  scheduled,            \* the source.start calls so far, in order
  transcripts,          \* the onTranscription calls so far, in order
  lastOp                \* the handler that ran last, with its input

refs == <<audioContextRef, inputContextRef, streamRef, processorRef, sourceRef>>
devices == <<micLive, outCtxOpen, inCtxOpen, srcWired, procWired>>
mute == <<isMuted, isMutedRef>>
outbound == <<nTicks, thenQueue, sent>>
inbound ==
  <<currentTime, nMsgs, nInterrupts, inflight, scheduled, transcripts>>
playback == <<nextStartTimeRef, inbound>>
vars == <<connectionState, errorMessage, isMuted, isMutedRef, volume,
          audioContextRef, inputContextRef, streamRef, processorRef, sourceRef,
          connectionTimeoutRef, isConnectedRef, mediaSupported, nStarted, pc,
          timer, session, opened, micLive, outCtxOpen, inCtxOpen,
          srcWired, procWired, nTicks, thenQueue, sent, nextStartTimeRef,
          currentTime, nMsgs, nInterrupts, inflight, scheduled, transcripts,
          lastOp>>

Op(name, a, input) == [op |-> name, a |-> a, in |-> input]

Init ==
  /\ connectionState = "disconnected"
  /\ errorMessage = MsgNone
  /\ isMuted = FALSE
  /\ isMutedRef = FALSE
  /\ volume = 0
  /\ audioContextRef = Null
  /\ inputContextRef = Null
  /\ streamRef = Null
  /\ processorRef = Null
  /\ sourceRef = Null
  /\ connectionTimeoutRef = Null
  /\ isConnectedRef = FALSE
  /\ mediaSupported \in BOOLEAN
  /\ nStarted = 0
  /\ pc = [i \in Attempts |-> "unused"]
  /\ timer = [i \in Attempts |-> "idle"]
  /\ session = [i \in Attempts |-> "none"]
  /\ opened = {}
  /\ micLive = {}
  /\ outCtxOpen = {}
  /\ inCtxOpen = {}
  /\ srcWired = {}
  /\ procWired = {}
  /\ nTicks = 0
  /\ thenQueue = [i \in Attempts |-> <<>>]
  /\ sent = [i \in Attempts |-> <<>>]
  /\ nextStartTimeRef = 0
  /\ currentTime = [i \in Attempts |-> 0]
  /\ nMsgs = 0
  /\ nInterrupts = 0
  /\ inflight = {}
  /\ scheduled = <<>>
  /\ transcripts = <<>>
  /\ lastOp = Op("init", Null, "-")

\* clearTimeout(id): a pending timer never fires; on a timer that has fired
\* or was cleared it is a no-op.  A timer is "pending" or "idle".
clearTimeout(t, id) ==
  IF id # Null THEN [t EXCEPT ![id] = "idle"] ELSE t

\* mutant of activeKey: the environment key coerced to a string, so that a
\* missing key reads "undefined"
activeKeyCoerced(apiKey, envKey) ==
  IF apiKey # "" THEN apiKey ELSE IF envKey # "" THEN envKey ELSE "undefined"

\* const activeKey = apiKey || process.env.API_KEY
activeKey(apiKey, envKey) == IF apiKey # "" THEN apiKey ELSE envKey

\* the values of the apiKey prop and of process.env.API_KEY: empty or set
Keys == {"", "key"}

\* the input of a connect() call as lastOp records it
keysGiven(apiKey, envKey) ==
  IF apiKey = "" /\ envKey = "" THEN "nokey" ELSE "key"

\* mutant of cleanup: streamRef is not set to null after the tracks are
\* stopped
cleanupKeepsStream(t) ==
  /\ isConnectedRef' = FALSE
  /\ timer' = clearTimeout(t, connectionTimeoutRef)
  /\ connectionTimeoutRef' = Null
  /\ procWired' = procWired \ {processorRef}
  /\ processorRef' = Null
  /\ srcWired' = srcWired \ {sourceRef}
  /\ sourceRef' = Null
  /\ micLive' = micLive \ {streamRef}
  /\ streamRef' = streamRef
  /\ outCtxOpen' = outCtxOpen \ {audioContextRef}
  /\ audioContextRef' =
       IF audioContextRef \in outCtxOpen THEN Null ELSE audioContextRef
  /\ inCtxOpen' = inCtxOpen \ {inputContextRef}
  /\ inputContextRef' =
       IF inputContextRef \in inCtxOpen THEN Null ELSE inputContextRef
  /\ volume' = 0

\* cleanup(), run on the timer table t the caller has reached
cleanup(t) ==
  /\ isConnectedRef' = FALSE
  /\ timer' = clearTimeout(t, connectionTimeoutRef)
  /\ connectionTimeoutRef' = Null
  /\ procWired' = procWired \ {processorRef}
  /\ processorRef' = Null
  /\ srcWired' = srcWired \ {sourceRef}
  /\ sourceRef' = Null
  /\ micLive' = micLive \ {streamRef}
  /\ streamRef' = Null
  /\ outCtxOpen' = outCtxOpen \ {audioContextRef}
  /\ audioContextRef' =
       IF audioContextRef \in outCtxOpen THEN Null ELSE audioContextRef
  /\ inCtxOpen' = inCtxOpen \ {inputContextRef}
  /\ inputContextRef' =
       IF inputContextRef \in inCtxOpen THEN Null ELSE inputContextRef
  /\ volume' = 0

\* connect() up to its first await, apart from isConnectedRef and the timer:
\* the resets, the key check, the getUserMedia support check
connectStart(name, apiKey, envKey) ==
  /\ isMuted' = FALSE
  /\ isMutedRef' = FALSE
  /\ IF activeKey(apiKey, envKey) = ""
       THEN /\ errorMessage' = MsgMissingKey
            /\ connectionState' = "error"
            /\ UNCHANGED <<nStarted, pc>>
            /\ lastOp' = Op(name, Null, keysGiven(apiKey, envKey))
       ELSE IF ~mediaSupported
         THEN /\ errorMessage' = MsgUnsupported
              /\ connectionState' = "error"
              /\ UNCHANGED <<nStarted, pc>>
              /\ lastOp' = Op(name, Null, keysGiven(apiKey, envKey))
         ELSE /\ errorMessage' = MsgNone
              /\ connectionState' = "requesting_permission"
              /\ nStarted' = nStarted + 1
              /\ pc' = [pc EXCEPT ![nStarted + 1] = "awaitMic"]
              /\ lastOp' = Op(name, nStarted + 1, keysGiven(apiKey, envKey))

\* whether connect() with these keys throws before the await (its catch runs)
connectThrows(apiKey, envKey) ==
  activeKey(apiKey, envKey) # "" /\ ~mediaSupported

\* connect(): one call, up to the await of getUserMedia or to its return
Connect ==
  \E apiKey \in Keys, envKey \in Keys :
    /\ activeKey(apiKey, envKey) # "" /\ mediaSupported => nStarted < MaxAttempts
    /\ connectStart("connect", apiKey, envKey)
    /\ isConnectedRef' = FALSE
    /\ timer' = IF connectThrows(apiKey, envKey)
                  THEN clearTimeout(timer, connectionTimeoutRef) ELSE timer
    /\ UNCHANGED <<volume, refs, connectionTimeoutRef, mediaSupported, session,
                   opened, devices, outbound, playback>>

\* disconnect(): cleanup(), then setConnectionState('disconnected')
Disconnect ==
  /\ cleanup(timer)
  /\ connectionState' = "disconnected"
  /\ lastOp' = Op("disconnect", Null, "-")
  /\ UNCHANGED <<errorMessage, mute, mediaSupported, nStarted, pc, session,
                 opened, outbound, playback>>

\* handleRetry (App.tsx): disconnect(); connect()
HandleRetry ==
  \E apiKey \in Keys, envKey \in Keys :
    /\ activeKey(apiKey, envKey) # "" /\ mediaSupported => nStarted < MaxAttempts
    /\ cleanup(timer)
    /\ connectStart("handleRetry", apiKey, envKey)
    /\ UNCHANGED <<mediaSupported, session, opened, outbound, playback>>

\* where the setup after the microphone grant throws (lines 134-166)
ThrowPoints == {"none", "outputCtx", "inputCtx"}

\* connect() resumed after getUserMedia resolved: streamRef, 'connecting',
\* the watchdog, the two audio contexts, ai.live.connect; the catch block
\* of connect() when a constructor throws
MicGranted(i) ==
  \E thr \in ThrowPoints :
    /\ pc[i] = "awaitMic"
    /\ pc' = [pc EXCEPT ![i] = "returned"]
    /\ streamRef' = i
    /\ micLive' = micLive \cup {i}
    /\ connectionTimeoutRef' = i
    /\ IF thr = "none"
         THEN /\ connectionState' = "connecting"
              /\ timer' = [timer EXCEPT ![i] = "pending"]
              /\ audioContextRef' = i
              /\ outCtxOpen' = outCtxOpen \cup {i}
              /\ inputContextRef' = i
              /\ inCtxOpen' = inCtxOpen \cup {i}
              /\ nextStartTimeRef' = currentTime[i]
              /\ session' = [session EXCEPT ![i] = "pending"]
              /\ UNCHANGED <<errorMessage, isConnectedRef>>
         ELSE /\ timer' = [timer EXCEPT ![i] = "idle"]
              /\ errorMessage' = MsgSetup
              /\ connectionState' = "error"
              /\ isConnectedRef' = FALSE
              /\ IF thr = "inputCtx"
                   THEN /\ audioContextRef' = i
                        /\ outCtxOpen' = outCtxOpen \cup {i}
                        /\ nextStartTimeRef' = currentTime[i]
                   ELSE UNCHANGED <<audioContextRef, outCtxOpen,
                                    nextStartTimeRef>>
              /\ UNCHANGED <<inputContextRef, inCtxOpen, session>>
    /\ lastOp' = Op("micGranted", i, thr)
    /\ UNCHANGED <<mute, volume, processorRef, sourceRef, mediaSupported,
                   nStarted, opened, srcWired, procWired, outbound, inbound>>

\* mutant of MicDenied: the return of the inner catch is missing, so that
\* connect() goes on to Step 2
MicDeniedFallsThrough(i) ==
  /\ pc[i] = "awaitMic"
  /\ pc' = [pc EXCEPT ![i] = "returned"]
  /\ errorMessage' = MsgMicDenied
  /\ connectionState' = "connecting"
  /\ timer' = [timer EXCEPT ![i] = "pending"]
  /\ connectionTimeoutRef' = i
  /\ session' = [session EXCEPT ![i] = "pending"]
  /\ lastOp' = Op("micDenied", i, "-")
  /\ UNCHANGED <<mute, volume, refs, isConnectedRef, mediaSupported, nStarted,
                 opened, devices, outbound, playback>>

\* connect() resumed after getUserMedia rejected (lines 114-119)
MicDenied(i) ==
  /\ pc[i] = "awaitMic"
  /\ pc' = [pc EXCEPT ![i] = "returned"]
  /\ errorMessage' = MsgMicDenied
  /\ connectionState' = "error"
  /\ lastOp' = Op("micDenied", i, "-")
  /\ UNCHANGED <<mute, volume, refs, connectionTimeoutRef, isConnectedRef,
                 mediaSupported, nStarted, timer, session, opened, devices, outbound, playback>>

\* the watchdog callback of attempt i (lines 125-132)
OnTimeout(i) ==
  /\ timer[i] = "pending"
  /\ IF ~isConnectedRef
       THEN /\ errorMessage' = MsgTimeout
            /\ connectionState' = "error"
            /\ cleanup([timer EXCEPT ![i] = "idle"])
       ELSE /\ timer' = [timer EXCEPT ![i] = "idle"]
            /\ UNCHANGED <<errorMessage, connectionState, isConnectedRef,
                           connectionTimeoutRef, refs, devices, volume>>
  /\ lastOp' = Op("timeout", i, IF isConnectedRef THEN "noop" ELSE "expired")
  /\ UNCHANGED <<mute, mediaSupported, nStarted, pc, session, opened, outbound, playback>>

\* createMediaStreamSource on a closed AudioContext: browsers differ on
\* whether it throws InvalidStateError
SourceMayThrow(i) == IF i \in inCtxOpen THEN {FALSE} ELSE BOOLEAN

\* The session of an attempt is "none" before ai.live.connect, then
\* "pending", "open" (onopen ran), "failed" (onerror ran: only its close can
\* follow) and "closed" (onclose ran: nothing follows).  No handler of the
\* hook closes a session: cleanup() leaves it alone, so its callbacks keep
\* arriving after disconnect(), after an error and after a retry.

\* callbacks.onopen of the session of attempt i (lines 179-220)
OnOpen(i) ==
  \E thr \in SourceMayThrow(i) :
    /\ session[i] = "pending"
    /\ session' = [session EXCEPT ![i] = "open"]
    /\ opened' = opened \cup {i}
    /\ isConnectedRef' = TRUE
    /\ timer' = clearTimeout(timer, connectionTimeoutRef)
    /\ connectionTimeoutRef' = Null
    /\ connectionState' = "connected"
    /\ IF thr
         THEN UNCHANGED <<sourceRef, srcWired, processorRef, procWired>>
         ELSE /\ sourceRef' = i
              /\ srcWired' = srcWired \cup {i}
              /\ processorRef' = i
              /\ procWired' = procWired \cup {i}
    /\ lastOp' = Op("onopen", i, IF thr THEN "threw" ELSE "-")
    /\ UNCHANGED <<errorMessage, mute, volume, audioContextRef, inputContextRef,
                   streamRef, mediaSupported, nStarted, pc, micLive,
                   outCtxOpen, inCtxOpen, outbound, playback>>

\* callbacks.onclose of the session of attempt i (lines 269-279)
OnClose(i) ==
  /\ session[i] \in {"pending", "open", "failed"}
  /\ session' = [session EXCEPT ![i] = "closed"]
  /\ IF ~isConnectedRef
       THEN /\ errorMessage' = MsgImmediate
            /\ connectionState' = "error"
       ELSE /\ connectionState' = "disconnected"
            /\ UNCHANGED errorMessage
  /\ isConnectedRef' = FALSE
  /\ lastOp' = Op("onclose", i, "-")
  /\ UNCHANGED <<mute, volume, refs, connectionTimeoutRef, mediaSupported,
                 nStarted, pc, timer, opened, devices, outbound, playback>>

\* mutant of OnError: the setErrorMessage call is missing
OnErrorKeepsMessage(i) ==
  /\ session[i] \in {"pending", "open"}
  /\ session' = [session EXCEPT ![i] = "failed"]
  /\ timer' = clearTimeout(timer, connectionTimeoutRef)
  /\ connectionState' = "error"
  /\ isConnectedRef' = FALSE
  /\ lastOp' = Op("onerror", i, "-")
  /\ UNCHANGED <<errorMessage, mute, volume, refs, connectionTimeoutRef,
                 mediaSupported, nStarted, pc, opened, devices, outbound, playback>>

\* callbacks.onerror of the session of attempt i (lines 280-286)
OnError(i) ==
  /\ session[i] \in {"pending", "open"}
  /\ session' = [session EXCEPT ![i] = "failed"]
  /\ timer' = clearTimeout(timer, connectionTimeoutRef)
  /\ errorMessage' = MsgService
  /\ connectionState' = "error"
  /\ isConnectedRef' = FALSE
  /\ lastOp' = Op("onerror", i, "-")
  /\ UNCHANGED <<mute, volume, refs, connectionTimeoutRef, mediaSupported,
                 nStarted, pc, opened, devices, outbound, playback>>

\* mutant of ToggleMute: muting also unwires the capture processor
ToggleMuteStopsCapture ==
  /\ isMutedRef' = ~isMutedRef
  /\ isMuted' = isMutedRef'
  /\ volume' = IF isMutedRef' THEN 0 ELSE volume
  /\ procWired' = IF isMutedRef' THEN procWired \ {processorRef} ELSE procWired
  /\ lastOp' = Op("toggleMute", Null, "-")
  /\ UNCHANGED <<connectionState, errorMessage, refs, connectionTimeoutRef,
                 isConnectedRef, mediaSupported, nStarted, pc, timer, session,
                 opened, micLive, outCtxOpen, inCtxOpen, srcWired,
                 outbound, playback>>

\* toggleMute() (lines 304-314)
ToggleMute ==
  /\ isMutedRef' = ~isMutedRef
  /\ isMuted' = isMutedRef'
  /\ volume' = IF isMutedRef' THEN 0 ELSE volume
  /\ lastOp' = Op("toggleMute", Null, "-")
  /\ UNCHANGED <<connectionState, errorMessage, refs, connectionTimeoutRef,
                 isConnectedRef, mediaSupported, nStarted, pc, timer, session,
                 opened, devices, outbound, playback>>

Min(a, b) == IF a < b THEN a ELSE b

\* mutant of displayVolume: the clamp is missing
displayVolumeUnclamped(rms) == rms * VolumeGain

\* Math.min(rms * 5, 1), in tenths
displayVolume(rms) == Min(rms * VolumeGain, VolumeOne)

\* processor.onaudioprocess of attempt i on a buffer of the given RMS
\* (lines 198-216); the packet of tick n is n
Tick(i) ==
  \E rms \in 0..MaxRms :
    /\ i \in procWired
    /\ i \in inCtxOpen
    /\ nTicks < MaxTicks
    /\ nTicks' = nTicks + 1
    /\ IF isMutedRef
         THEN UNCHANGED <<volume, thenQueue>>
         ELSE /\ volume' = displayVolume(rms)
              /\ thenQueue' = [thenQueue EXCEPT ![i] = Append(@, nTicks + 1)]
    /\ lastOp' = Op("tick", i, rms)
    /\ UNCHANGED <<connectionState, errorMessage, mute, refs,
                   connectionTimeoutRef, isConnectedRef, mediaSupported,
                   nStarted, pc, timer, session, opened, devices, sent,
                   playback>>

\* mutant of SendDeferred: the callback registered last runs first
SendDeferredNewest(i) ==
  /\ thenQueue[i] # <<>>
  /\ i \in opened
  /\ sent' = [sent EXCEPT ![i] = Append(@, thenQueue[i][Len(thenQueue[i])])]
  /\ thenQueue' =
       [thenQueue EXCEPT ![i] = SubSeq(@, 1, Len(thenQueue[i]) - 1)]
  /\ lastOp' = Op("send", i, "-")
  /\ UNCHANGED <<connectionState, errorMessage, mute, volume, refs,
                 connectionTimeoutRef, isConnectedRef, mediaSupported, nStarted,
                 pc, timer, session, opened, devices, nTicks, playback>>

\* the callback given to sessionPromise.then (lines 213-215): the promise of
\* ai.live.connect is resolved once the session is open
SendDeferred(i) ==
  /\ thenQueue[i] # <<>>
  /\ i \in opened
  /\ sent' = [sent EXCEPT ![i] = Append(@, Head(thenQueue[i]))]
  /\ thenQueue' = [thenQueue EXCEPT ![i] = Tail(@)]
  /\ lastOp' = Op("send", i, "-")
  /\ UNCHANGED <<connectionState, errorMessage, mute, volume, refs,
                 connectionTimeoutRef, isConnectedRef, mediaSupported, nStarted,
                 pc, timer, session, opened, devices, nTicks, playback>>

\* everything the inbound path leaves alone
hook ==
  <<connectionState, errorMessage, mute, volume, refs, connectionTimeoutRef,
    isConnectedRef, mediaSupported, nStarted, pc, timer, session, opened,
    devices, outbound>>

Max(a, b) == IF a > b THEN a ELSE b

\* The fields of a LiveServerMessage that onmessage reads: the two
\* transcription texts (present or not), the inline audio of the first part
\* (absent, base64 that decode() rejects, or data handed to decodeAudioData)
\* and the interrupted flag.
Audio == {"none", "garbled", "data"}
Messages == [inT : BOOLEAN, outT : BOOLEAN, audio : Audio, intr : BOOLEAN]

\* the onTranscription calls of one message (lines 223-228)
transcriptsOf(id, msg) ==
  (IF msg.inT THEN <<[id |-> id, isUser |-> TRUE]>> ELSE <<>>)
    \o (IF msg.outT THEN <<[id |-> id, isUser |-> FALSE]>> ELSE <<>>)

\* mutant of startTime: the clock is taken without the maximum
startTimeNow(t, now) == now

\* Math.max(nextStartTimeRef.current, outputCtx.currentTime) (line 235)
startTime(t, now) == Max(t, now)

\* mutant of interrupted: the interrupted flag is not looked at
interruptedIgnored(intr, t, now) == t

\* the interruption handling at the end of onmessage (lines 265-267), on the
\* timeline value t the handler has reached
interrupted(intr, t, now) == IF intr THEN now ELSE t

\* callbacks.onmessage of the session of attempt i, up to its await or to
\* its end (lines 221-268); message n has id n
OnMessage(i) ==
  \E msg \in Messages :
    /\ session[i] = "open"
    /\ nMsgs < MaxMsgs
    /\ nMsgs' = nMsgs + 1
    /\ nInterrupts' = nInterrupts + (IF msg.intr THEN 1 ELSE 0)
    /\ transcripts' = transcripts \o transcriptsOf(nMsgs + 1, msg)
    /\ CASE msg.audio = "data" ->
              /\ nextStartTimeRef' = startTime(nextStartTimeRef, currentTime[i])
              /\ inflight' = inflight \cup
                   {[id |-> nMsgs + 1, a |-> i, intr |-> msg.intr]}
         [] msg.audio = "garbled" ->
              /\ nextStartTimeRef' =
                   interrupted(msg.intr,
                               startTime(nextStartTimeRef, currentTime[i]),
                               currentTime[i])
              /\ UNCHANGED inflight
         [] msg.audio = "none" ->
              /\ nextStartTimeRef' =
                   interrupted(msg.intr, nextStartTimeRef, currentTime[i])
              /\ UNCHANGED inflight
    /\ lastOp' = Op("onmessage", i, msg)
    /\ UNCHANGED <<hook, currentTime, scheduled>>

\* mutant of panValue: the split-audio setting pans to one side
panValueSplit(splitAudio) == IF splitAudio THEN 1 ELSE 0

\* panner.pan.value for the splitAudio prop of the hook (lines 245-251)
panValue(splitAudio) == IF splitAudio THEN 0 ELSE 0

\* the buffer source that onmessage builds and starts for the decoded audio
\* of message m (lines 242-256): the argument of source.start, the clock at
\* the call, the duration of the buffer and the pan of its panner
chunk(m, dur, splitAudio) ==
  [id |-> m.id, a |-> m.a, when |-> nextStartTimeRef,
   at |-> currentTime[m.a], dur |-> dur, pan |-> panValue(splitAudio)]

\* onmessage resumed after decodeAudioData resolved with a buffer of some
\* duration (lines 242-257), then the interruption handling; splitAudio is
\* the prop the closure of connect() captured
DecodeDone(m) ==
  \E dur \in 1..MaxDur, splitAudio \in BOOLEAN :
    /\ m \in inflight
    /\ inflight' = inflight \ {m}
    /\ scheduled' = Append(scheduled, chunk(m, dur, splitAudio))
    /\ nextStartTimeRef' =
         interrupted(m.intr, nextStartTimeRef + dur, currentTime[m.a])
    /\ lastOp' = Op("decodeDone", m.a,
                    [id |-> m.id, a |-> m.a, intr |-> m.intr,
                     splitAudio |-> splitAudio])
    /\ UNCHANGED <<hook, currentTime, nMsgs, nInterrupts, transcripts>>

\* mutant of DecodeFail: the catch block reports the failure as a fatal error
DecodeFailFatal(m) ==
  /\ m \in inflight
  /\ inflight' = inflight \ {m}
  /\ nextStartTimeRef' =
       interrupted(m.intr, nextStartTimeRef, currentTime[m.a])
  /\ errorMessage' = MsgSetup
  /\ connectionState' = "error"
  /\ lastOp' = Op("decodeFail", m.a, m)
  /\ UNCHANGED <<mute, volume, refs, connectionTimeoutRef, isConnectedRef,
                 mediaSupported, nStarted, pc, timer, session, opened,
                 devices, outbound, currentTime, nMsgs, nInterrupts,
                 scheduled, transcripts>>

\* mutant of DecodeFail: the catch block returns, so that the interruption
\* handling is skipped
DecodeFailSkipsInterruption(m) ==
  /\ m \in inflight
  /\ inflight' = inflight \ {m}
  /\ lastOp' = Op("decodeFail", m.a, m)
  /\ UNCHANGED <<hook, nextStartTimeRef, currentTime, nMsgs, nInterrupts,
                 scheduled, transcripts>>

\* onmessage resumed after decodeAudioData rejected: the catch block
\* (lines 259-261), then the interruption handling
DecodeFail(m) ==
  /\ m \in inflight
  /\ inflight' = inflight \ {m}
  /\ nextStartTimeRef' =
       interrupted(m.intr, nextStartTimeRef, currentTime[m.a])
  /\ lastOp' = Op("decodeFail", m.a, m)
  /\ UNCHANGED <<hook, currentTime, nMsgs, nInterrupts, scheduled,
                 transcripts>>

\* the clock of the output context of attempt i advances while the context
\* is not closed
Advance(i) ==
  /\ i \in outCtxOpen
  /\ currentTime[i] < MaxClock
  /\ currentTime' = [currentTime EXCEPT ![i] = @ + 1]
  /\ lastOp' = Op("advance", i, "-")
  /\ UNCHANGED <<hook, nextStartTimeRef, nMsgs, nInterrupts, inflight,
                 scheduled, transcripts>>

Next ==
  \/ Connect
  \/ Disconnect
  \/ HandleRetry
  \/ \E i \in Attempts : MicGranted(i)
  \/ \E i \in Attempts : MicDenied(i)
  \/ \E i \in Attempts : OnTimeout(i)
  \/ \E i \in Attempts : OnOpen(i)
  \/ \E i \in Attempts : OnClose(i)
  \/ \E i \in Attempts : OnError(i)
  \/ ToggleMute
  \/ \E i \in Attempts : Tick(i)
  \/ \E i \in Attempts : SendDeferred(i)

Spec == Init /\ [][Next]_vars

\* The watchdog is a setTimeout: a pending timer that is not cleared fires.
FairSpec == Spec /\ \A i \in Attempts : WF_vars(OnTimeout(i))

\* The inbound path of one connection attempt: the first connect() call that
\* gets to the microphone request, the callbacks of its session, disconnect(),
\* the messages of the session, their decodes and the output clock.
PlayNext ==
  \/ nStarted = 0 /\ Connect
  \/ Disconnect
  \/ \E i \in Attempts : MicGranted(i)
  \/ \E i \in Attempts : MicDenied(i)
  \/ \E i \in Attempts : OnTimeout(i)
  \/ \E i \in Attempts : OnOpen(i)
  \/ \E i \in Attempts : OnClose(i)
  \/ \E i \in Attempts : OnError(i)
  \/ \E i \in Attempts : OnMessage(i)
  \/ \E m \in inflight : DecodeDone(m)
  \/ \E m \in inflight : DecodeFail(m)
  \/ \E i \in Attempts : Advance(i)

PlaySpec == Init /\ [][PlayNext]_vars

\* ------------------------------------------------------------------------
\* Properties
\* ------------------------------------------------------------------------

\* C1: Connected is reachable only via Connecting: no step leads from
\* Disconnected to Connected, also when the open callback of a session
\* arrives after disconnect() or after a retry.
C1_NoDisconnectedToConnected ==
  [][connectionState = "disconnected" => connectionState' # "connected"]_vars

\* the attempt whose session a state Connecting is waiting for: the one
\* whose MicGranted ran last and installed its contexts in the refs
CurrentAttempt == inputContextRef

\* C2: a state Connecting is always followed by a state that is not
\* Connecting: by Error through the watchdog when the open signal of the
\* current session never arrives and no stop is issued, so that the system
\* never stays in Connecting forever (the watchdog timers being fair).
C2_NeverStaysConnecting ==
  (connectionState = "connecting") ~> (connectionState # "connecting")

\* the handler that ran last resolved the connection attempt of lastOp.a:
\* open, close or error of its session, or a setup exception
ResolvedAttempt ==
  \/ lastOp.op \in {"onopen", "onclose", "onerror"}
  \/ lastOp.op = "micGranted" /\ lastOp.in # "none"

\* C3: the watchdog is disarmed as soon as the connection attempt is resolved
\* by open, close, error, a setup exception or disconnect(): after such a
\* step the timer of the attempt is not pending, so that no timeout fires on
\* a session that has already reached Connected, Error or Disconnected.
C3_DisarmedWhenResolved ==
  /\ ResolvedAttempt => timer[lastOp.a] # "pending"
  /\ lastOp.op \in {"disconnect", "handleRetry"} =>
       \A i \in Attempts : timer[i] # "pending"

\* everything toggleMute() must leave alone
exceptMute ==
  <<connectionState, errorMessage, refs, connectionTimeoutRef, isConnectedRef,
    mediaSupported, nStarted, pc, timer, session, opened, devices,
    outbound, playback>>

\* C4: while Connected, toggleMute() flips the mute flag and changes nothing
\* but the flag and the displayed volume (the state stays Connected, the
\* processor, the stream and both contexts stay acquired); a capture tick
\* processed while the flag is set submits no packet, and a tick processed
\* after the flag was cleared again submits its packet.
C4_MuteOnlySuppressesSends ==
  [][/\ (lastOp'.op = "toggleMute" /\ connectionState = "connected") =>
          /\ connectionState' = "connected"
          /\ isMutedRef' = ~isMutedRef
          /\ UNCHANGED exceptMute
     /\ (lastOp'.op = "tick" /\ connectionState = "connected") =>
          IF isMutedRef
            THEN UNCHANGED <<thenQueue, sent>>
            ELSE thenQueue'[lastOp'.a] = Append(thenQueue[lastOp'.a], nTicks')
    ]_vars

\* a tick was processed while muted and Connected, after a packet was sent
C4_MutedTickWhileConnected ==
  /\ lastOp.op = "tick"
  /\ isMutedRef
  /\ connectionState = "connected"
  /\ lastOp.a \in procWired \cap micLive \cap inCtxOpen \cap outCtxOpen
  /\ sent[lastOp.a] # <<>>

\* C5: the displayed volume lies in [0,1], and it is 0 whenever the mute flag
\* is set.
C5_VolumeInRangeAndZeroWhenMuted ==
  /\ volume \in 0..VolumeOne
  /\ isMutedRef => volume = 0
  /\ isMuted => volume = 0

\* a tick whose scaled RMS exceeds 1 was displayed
C5_LoudTickClamped ==
  /\ lastOp.op = "tick"
  /\ lastOp.in * VolumeGain > VolumeOne
  /\ ~isMutedRef
  /\ volume = VolumeOne

\* C6: connect() with no credential ends in Error with the missing-credential
\* message; on that step the microphone is not requested (no attempt starts
\* to await it, the state is not RequestingPermission), no watchdog is armed
\* and no remote session is created.
C6_MissingKeyStopsConnect ==
  [][(lastOp'.op \in {"connect", "handleRetry"} /\ lastOp'.in = "nokey") =>
       /\ connectionState' = "error"
       /\ errorMessage' = MsgMissingKey
       /\ pc' = pc
       /\ nStarted' = nStarted
       /\ session' = session
       /\ \A i \in Attempts : timer'[i] = "pending" => timer[i] = "pending"
    ]_vars

\* connect() was called without a credential
C6_ConnectWithoutKey ==
  /\ lastOp.op = "connect"
  /\ lastOp.in = "nokey"
  /\ connectionState = "error"
  /\ errorMessage = MsgMissingKey

\* C7: a denied microphone request ends in Error with the permission message,
\* and a connect() in an environment without capture support ends in Error
\* with the unsupported message; on that step no watchdog is armed and no
\* session is created, and the attempt never gets a watchdog or a session
\* (never reaches Connecting) afterwards.
C7_MicDeniedStopsAttempt ==
  [][/\ lastOp'.op = "micDenied" =>
          /\ connectionState' = "error"
          /\ errorMessage' = MsgMicDenied
          /\ pc'[lastOp'.a] = "returned"
          /\ session' = session
          /\ timer' = timer
     /\ (lastOp'.op \in {"connect", "handleRetry"} /\ lastOp'.in = "key"
           /\ ~mediaSupported) =>
          /\ connectionState' = "error"
          /\ errorMessage' = MsgUnsupported
          /\ pc' = pc
          /\ session' = session
          /\ \A i \in Attempts : timer'[i] = "pending" => timer[i] = "pending"
     /\ \A i \in Attempts :
          (pc[i] = "returned" /\ session[i] = "none") =>
            (session'[i] = "none" /\ timer'[i] # "pending")
    ]_vars

\* the microphone request of an attempt was denied
C7_MicWasDenied ==
  /\ lastOp.op = "micDenied"
  /\ connectionState = "error"
  /\ errorMessage = MsgMicDenied
  /\ session[lastOp.a] = "none"

\* C8: a close callback of the current session that arrives while the state
\* is Connecting, its open never received, sets the state to Error with the
\* immediate-failure message.
C8_CloseBeforeOpenFails ==
  [][(/\ lastOp'.op = "onclose"
      /\ connectionState = "connecting"
      /\ lastOp'.a = CurrentAttempt
      /\ lastOp'.a \notin opened) =>
       (connectionState' = "error" /\ errorMessage' = MsgImmediate)]_vars

\* C9: the close callback of a session that reached Connected is a normal
\* close: it does not produce the immediate-failure Error, and from Connected
\* it leads to Disconnected.
C9_CloseAfterOpenIsNormal ==
  [][(lastOp'.op = "onclose" /\ lastOp'.a \in opened) =>
       /\ ~(connectionState' = "error" /\ errorMessage' = MsgImmediate)
       /\ connectionState = "connected" => connectionState' = "disconnected"
    ]_vars

\* C10: the error callback of a session leaves the state Error with the
\* service-failure message and the watchdog of that session not pending.
C10_ErrorCallback ==
  [][lastOp'.op = "onerror" =>
       /\ connectionState' = "error"
       /\ errorMessage' = MsgService
       /\ timer'[lastOp'.a] # "pending"]_vars

\* C11: disconnect() invoked in any state leaves the state Disconnected with
\* the full teardown done in the same step: no capture processor and no
\* microphone source wired, no microphone track live, no input or output
\* audio context open, no watchdog timer pending, the connection marker false
\* and the volume 0.
C11_DisconnectTearsDown ==
  lastOp.op = "disconnect" =>
    /\ connectionState = "disconnected"
    /\ procWired = {}
    /\ srcWired = {}
    /\ micLive = {}
    /\ inCtxOpen = {}
    /\ outCtxOpen = {}
    /\ \A i \in Attempts : timer[i] # "pending"
    /\ ~isConnectedRef
    /\ volume = 0

\* the attempts whose remote session is active: created and neither failed
\* nor closed
ActiveSessions == {i \in Attempts : session[i] \in {"pending", "open"}}

\* C12: at most one session is active at a time: in no reachable state are
\* two remote sessions (pending or open) live together.
C12_AtMostOneSession == Cardinality(ActiveSessions) <= 1

\* C13: every fatal error triggers teardown: in every state Error the capture
\* processor and the microphone source are unwired, the microphone tracks are
\* stopped and both audio contexts are closed, so that no capture tick is
\* processed while the state is Error.
C13_ErrorTearsDown ==
  connectionState = "error" =>
    /\ procWired = {}
    /\ srcWired = {}
    /\ micLive = {}
    /\ inCtxOpen = {}
    /\ outCtxOpen = {}

\* the message that belongs to the error kind of a handler
KindMessage(o) ==
  CASE o.op \in {"connect", "handleRetry"} ->
         IF o.in = "nokey" THEN MsgMissingKey ELSE MsgUnsupported
    [] o.op = "micDenied" -> MsgMicDenied
    [] o.op = "micGranted" -> MsgSetup
    [] o.op = "timeout" -> MsgTimeout
    [] o.op = "onclose" -> MsgImmediate
    [] o.op = "onerror" -> MsgService
    [] OTHER -> MsgNone

\* the handlers that never write the state: a mute toggle, a capture tick, a
\* deferred send, a watchdog that finds the marker set
KeepsState(o) ==
  \/ o.op \in {"toggleMute", "tick", "send"}
  \/ o.op = "timeout" /\ o.in = "noop"

\* C14: in every state Error the error message is set (not null, not empty),
\* and every step that sets the state Error sets the message of its error
\* kind in the same step.
C14_ErrorHasMessage ==
  [][connectionState' = "error" =>
       /\ errorMessage' \notin {MsgNone, ""}
       /\ IF KeepsState(lastOp')
            THEN UNCHANGED <<connectionState, errorMessage>>
            ELSE errorMessage' = KindMessage(lastOp')]_vars

\* the watchdog expired and replaced the state by Error with its message
C14_TimedOutWithMessage ==
  /\ lastOp.op = "timeout"
  /\ lastOp.in = "expired"
  /\ connectionState = "error"
  /\ errorMessage = MsgTimeout

\* the step is the handling of an inbound packet or a clock advance, and
\* applies no interruption signal: an arrival whose message has no
\* interrupted flag, the completion of a decode of such a message, a tick of
\* the output clock
PacketStep(o) ==
  \/ o.op \in {"onmessage", "decodeDone", "decodeFail"} /\ ~o.in.intr
  \/ o.op = "advance"

\* C15: within one session, over the arrivals of inbound audio packets, the
\* completions of their decodes and the clock advances, none of them carrying
\* an interruption signal, nextStartTime never decreases from one step to the
\* next.
C15_TimelineNeverDecreases ==
  [][PacketStep(lastOp') => nextStartTimeRef' >= nextStartTimeRef]_vars

\* a packet arrived while the timeline was ahead of the output clock, a chunk
\* being scheduled already
C15_PacketWhileAhead ==
  /\ lastOp.op = "onmessage"
  /\ lastOp.in.audio = "data"
  /\ ~lastOp.in.intr
  /\ scheduled # <<>>
  /\ nextStartTimeRef > currentTime[lastOp.a]

\* the step applies an interruption signal: the arrival of a message with the
\* interrupted flag and no audio to wait for, or the completion of the decode
\* of a message with the flag
InterruptionStep(o) ==
  \/ o.op = "onmessage" /\ o.in.intr /\ o.in.audio # "data"
  \/ o.op \in {"decodeDone", "decodeFail"} /\ o.in.intr

\* C16 as stated: every interruption signal sets nextStartTime to the current
\* value of the output clock, and that value never exceeds the value
\* nextStartTime had immediately before: an interruption never moves the
\* timeline forward, also when it arrives after playback has gone idle.
C16_InterruptionNeverForward ==
  [][InterruptionStep(lastOp') =>
       /\ nextStartTimeRef' = currentTime'[lastOp'.a]
       /\ nextStartTimeRef' <= nextStartTimeRef]_vars

\* C16 as amended: every interruption signal sets nextStartTime to the
\* current value of the output clock; that value does not exceed the value
\* nextStartTime had before when the timeline was at or ahead of the clock,
\* and it exceeds it when playback had gone idle (the timeline behind the
\* clock): the reset then moves the timeline forward to now.
C16_InterruptionResetsToClock ==
  [][InterruptionStep(lastOp') =>
       /\ nextStartTimeRef' = currentTime'[lastOp'.a]
       /\ nextStartTimeRef >= currentTime[lastOp'.a] =>
            nextStartTimeRef' <= nextStartTimeRef
       /\ nextStartTimeRef < currentTime[lastOp'.a] =>
            nextStartTimeRef' > nextStartTimeRef]_vars

\* the chunk scheduled last
LastChunk == scheduled[Len(scheduled)]

\* an interruption-only message arrived mid-playback: the chunk scheduled
\* last ends after the clock value the timeline was reset to
C16_InterruptedMidPlayback ==
  /\ lastOp.op = "onmessage"
  /\ lastOp.in.intr
  /\ lastOp.in.audio = "none"
  /\ scheduled # <<>>
  /\ nextStartTimeRef = currentTime[lastOp.a]
  /\ LastChunk.when + LastChunk.dur > nextStartTimeRef

\* the transcript events a message with the given fields has to emit
EventsFor(id, msg) ==
  [k \in 1..((IF msg.inT THEN 1 ELSE 0) + (IF msg.outT THEN 1 ELSE 0)) |->
     [id |-> id, isUser |-> IF k = 1 THEN msg.inT ELSE FALSE]]

\* C17: the four effects of an inbound message are applied independently,
\* each exactly when its field is present: an input transcription emits one
\* event tagged local, an output transcription one tagged remote, an audio
\* payload is handed to the scheduler (the timeline is raised to the clock
\* and, unless decode() rejects it, a decode is started), and the interrupted
\* flag resets the timeline to the clock, at the arrival or when the decode
\* of the message's audio ends, whether it succeeds or fails.
C17_EffectsIndependent ==
  [][/\ lastOp'.op = "onmessage" =>
          /\ transcripts' = transcripts \o EventsFor(nMsgs', lastOp'.in)
          /\ inflight' =
               IF lastOp'.in.audio = "data"
                 THEN inflight \cup {[id |-> nMsgs', a |-> lastOp'.a,
                                      intr |-> lastOp'.in.intr]}
                 ELSE inflight
          /\ (lastOp'.in.audio # "none" /\ ~InterruptionStep(lastOp')) =>
               /\ nextStartTimeRef' >= currentTime[lastOp'.a]
               /\ nextStartTimeRef' >= nextStartTimeRef
          /\ (lastOp'.in.audio = "none" /\ ~lastOp'.in.intr) =>
               nextStartTimeRef' = nextStartTimeRef
          /\ scheduled' = scheduled
     /\ lastOp'.op \in {"decodeDone", "decodeFail"} =>
          /\ transcripts' = transcripts
          /\ Len(scheduled') =
               Len(scheduled) + (IF lastOp'.op = "decodeDone" THEN 1 ELSE 0)
     /\ InterruptionStep(lastOp') =>
          nextStartTimeRef' = currentTime[lastOp'.a]
    ]_vars

\* a message with all four fields was handled, its decode failed, and the
\* timeline was reset all the same, ahead of the clock before
C17_AllFourWithFailedDecode ==
  /\ lastOp.op = "decodeFail"
  /\ lastOp.in.intr
  /\ \E k \in 1..(Len(transcripts) - 1) :
       /\ transcripts[k] = [id |-> lastOp.in.id, isUser |-> TRUE]
       /\ transcripts[k + 1] = [id |-> lastOp.in.id, isUser |-> FALSE]
  /\ scheduled # <<>>
  /\ nextStartTimeRef = currentTime[lastOp.a]
  /\ LastChunk.when + LastChunk.dur > nextStartTimeRef

\* C18: inbound effects are gated by the state: a message delivered while the
\* state is not Connected (after disconnect(), after an error) emits no
\* transcript event, schedules nothing and does not modify the timeline.
C18_MessagesGatedByState ==
  [][(lastOp'.op = "onmessage" /\ connectionState # "connected") =>
       UNCHANGED <<transcripts, inflight, scheduled, nextStartTimeRef>>]_vars

\* C19: no chunk is scheduled in the past: at every source.start the start
\* time is at least the value of the output clock at the call.
C19_NeverScheduledInPast ==
  \A k \in 1..Len(scheduled) : scheduled[k].when >= scheduled[k].at

\* AudioBufferSourceNode.start(when): the buffer plays from when, or from now
\* if when has passed
playsFrom(c) == Max(c.when, c.at)

\* two chunks of the same output context play at the same time
Overlap(c, d) ==
  /\ c.a = d.a
  /\ playsFrom(c) < playsFrom(d) + d.dur
  /\ playsFrom(d) < playsFrom(c) + c.dur

\* C20: gapless playback without overlap: as long as no interruption signal
\* arrived, scheduling a chunk starts it at nextStartTime and advances
\* nextStartTime by exactly its duration, and no two scheduled chunks play at
\* the same time, for every interleaving of arrivals and decode completions.
C20_GaplessNoOverlap ==
  [][nInterrupts' = 0 =>
       /\ lastOp'.op = "decodeDone" =>
            /\ scheduled'[Len(scheduled')].when = nextStartTimeRef
            /\ nextStartTimeRef' =
                 nextStartTimeRef + scheduled'[Len(scheduled')].dur
       /\ \A j, k \in 1..Len(scheduled') :
            j < k => ~Overlap(scheduled'[j], scheduled'[k])]_vars

\* C21: inbound handling preserves the arrival order within a session: audio
\* chunks are scheduled in the order their messages arrived, a chunk that
\* arrived earlier gets an earlier start time (no interruption having reset
\* the timeline), and an interruption carried by a message is applied before
\* the audio of any later message is scheduled.
C21_ArrivalOrderPreserved ==
  /\ \A j, k \in 1..Len(scheduled) :
       j < k => scheduled[j].id < scheduled[k].id
  /\ nInterrupts = 0 =>
       \A j, k \in 1..Len(scheduled) :
         scheduled[j].id < scheduled[k].id =>
           scheduled[j].when < scheduled[k].when
  /\ \A m \in inflight :
       m.intr => \A k \in 1..Len(scheduled) : scheduled[k].id < m.id

\* the step is a decode failure: decode() rejecting the payload at the
\* arrival, or decodeAudioData rejecting later
DecodeFailure(o) ==
  \/ o.op = "onmessage" /\ o.in.audio = "garbled"
  \/ o.op = "decodeFail"

\* C22: a decode failure of one inbound audio packet is contained: the
\* connection state, the error message and the rest of the hook are
\* unchanged, no chunk is scheduled, nextStartTime is not advanced by a
\* duration (it keeps the value the arrival gave it, or is reset by the
\* message's own interruption flag), and the session goes on: the other
\* pending packets stay pending and the session stays open.
C22_DecodeFailureContained ==
  [][DecodeFailure(lastOp') =>
       /\ UNCHANGED <<connectionState, errorMessage, hook>>
       /\ scheduled' = scheduled
       /\ nextStartTimeRef' =
            IF lastOp'.in.intr THEN currentTime[lastOp'.a]
            ELSE IF lastOp'.op = "decodeFail" THEN nextStartTimeRef
            ELSE Max(nextStartTimeRef, currentTime[lastOp'.a])
       /\ lastOp'.op = "decodeFail" => inflight' = inflight \ {lastOp'.in}
       /\ lastOp'.op = "onmessage" => inflight' = inflight
       /\ session'[lastOp'.a] = session[lastOp'.a]]_vars

\* the decode of a packet failed while the state was Connected with no error
\* message, a packet that arrived later still waiting for its decode
C22_FailedWhileLaterPacketWaits ==
  /\ lastOp.op = "decodeFail"
  /\ connectionState = "connected"
  /\ errorMessage = MsgNone
  /\ session[lastOp.a] = "open"
  /\ \E m \in inflight : m.id > lastOp.in.id

C23_CaptureOnlyWhileConnected ==
  [][/\ (/\ lastOp'.op \in {"onclose", "onerror", "disconnect"}
         /\ connectionState = "connected"
         /\ connectionState' # "connected") => procWired' = {}
     /\ (lastOp'.op = "tick" /\ connectionState # "connected") =>
          thenQueue' = thenQueue]_vars

\* the handler ran cleanup(): disconnect(), a retry, an expired watchdog
RanCleanup(o) ==
  \/ o.op \in {"disconnect", "handleRetry"}
  \/ o.op = "timeout" /\ o.in = "expired"

\* what cleanup() writes apart from the state of the hook
teardown ==
  <<refs, devices, timer, connectionTimeoutRef, isConnectedRef, volume>>

\* C24: teardown is idempotent: after cleanup() every guard of a release is
\* false (the handles are null, no context the refs hold is open), so that a
\* second run releases nothing; disconnect() after a handler that ran
\* cleanup() changes none of what cleanup() writes, and disconnect() after
\* disconnect() changes nothing at all.
C24_CleanupIdempotent ==
  [][/\ RanCleanup(lastOp') =>
          /\ processorRef' = Null
          /\ sourceRef' = Null
          /\ streamRef' = Null
          /\ connectionTimeoutRef' = Null
          /\ audioContextRef' \notin outCtxOpen'
          /\ inputContextRef' \notin inCtxOpen'
     /\ (RanCleanup(lastOp) /\ lastOp'.op = "disconnect") =>
          UNCHANGED teardown
     /\ (lastOp.op = "disconnect" /\ lastOp'.op = "disconnect") =>
          UNCHANGED vars]_vars

\* disconnect() tore down an attempt that had its session, its microphone
\* and its contexts
C24_TornDownAfterSetup ==
  /\ lastOp.op = "disconnect"
  /\ connectionState = "disconnected"
  /\ \E i \in Attempts :
       /\ session[i] \in {"pending", "open"}
       /\ i \notin micLive \cup outCtxOpen \cup inCtxOpen \cup procWired
  /\ streamRef = Null
  /\ audioContextRef = Null

\* the packets of a sequence are in capture order
InCaptureOrder(q) == \A j, k \in 1..Len(q) : j < k => q[j] < q[k]

\* C25: outbound packets are submitted in capture order: a capture tick
\* submits nothing itself and, unless muted, registers exactly its own packet
\* behind those that wait; every submission hands over the packet that waits
\* longest; so the packets submitted, followed by those that wait, are the
\* unmuted ticks of the session in tick order, one packet per tick.
C25_SentInCaptureOrder ==
  [][/\ \A i \in Attempts : InCaptureOrder(sent'[i] \o thenQueue'[i])
     /\ lastOp'.op = "tick" =>
          /\ sent' = sent
          /\ thenQueue' =
               IF isMutedRef THEN thenQueue
               ELSE [thenQueue EXCEPT ![lastOp'.a] = Append(@, nTicks')]
     /\ lastOp'.op = "send" =>
          /\ thenQueue[lastOp'.a] # <<>>
          /\ sent' = [sent EXCEPT
                        ![lastOp'.a] = Append(@, Head(thenQueue[lastOp'.a]))]
          /\ thenQueue' = [thenQueue EXCEPT ![lastOp'.a] = Tail(@)]
    ]_vars

\* two packets that waited together were submitted, the older one first
C25_TwoSentInOrder ==
  /\ lastOp.op = "send"
  /\ Len(sent[lastOp.a]) = 2
  /\ sent[lastOp.a][1] < sent[lastOp.a][2]
  /\ thenQueue[lastOp.a] = <<>>

\* C27: a stop is final until the next connect request: the step that follows
\* disconnect(), unless it is a connect() or a retry, leaves the state
\* Disconnected and acquires no microphone stream, no audio context, no
\* capture processor, no watchdog timer and no remote session, whichever
\* late completion of the stopped attempt it is.
C27_StopIsFinal ==
  [][(lastOp.op = "disconnect" /\ lastOp'.op \notin {"connect", "handleRetry"})
       => /\ connectionState' = "disconnected"
          /\ micLive' \subseteq micLive
          /\ outCtxOpen' \subseteq outCtxOpen
          /\ inCtxOpen' \subseteq inCtxOpen
          /\ srcWired' \subseteq srcWired
          /\ procWired' \subseteq procWired
          /\ \A i \in Attempts :
               /\ timer'[i] = "pending" => timer[i] = "pending"
               /\ session[i] = "none" => session'[i] = "none"]_vars

\* the attempt was superseded: it got its session, cleanup() released its
\* microphone, and a later connect() has started a new attempt
Superseded(a) ==
  /\ a # Null
  /\ a < nStarted
  /\ session[a] # "none"
  /\ a \notin micLive

\* C28: callbacks of a superseded session do not affect the current one: an
\* open, close or error callback or a watchdog firing that belongs to an
\* earlier attempt changes neither the state nor the error message nor the
\* connection-established marker nor nextStartTime.
C28_SupersededCallbacksInert ==
  [][(/\ lastOp'.op \in {"onopen", "onclose", "onerror", "timeout"}
      /\ Superseded(lastOp'.a)) =>
       UNCHANGED <<connectionState, errorMessage, isConnectedRef,
                   nextStartTimeRef>>]_vars

====
